---------------------------- MODULE Spec2Model ----------------------------
(***************************************************************************)
(* Model of synthpops/base.py: the age-count and contact-matrix helpers.   *)
(*                                                                         *)
(* Every helper is a function of its arguments.  One call is modelled as   *)
(* one step from pc = "call" to pc = "done": `args` holds the argument     *)
(* objects (as the caller still sees them after the call), `entry` the     *)
(* arguments as they were when the call was made, and `ret` the outcome:   *)
(* the returned value, or the exception that was raised.                   *)
(*                                                                         *)
(* A dict is a function whose DOMAIN is its key set.  A float64 is an      *)
(* exact fraction [n, d]; the IEEE values a division by zero produces are  *)
(* kept as d = 0 (n = 1: inf, n = -1: -inf, n = 0: nan).  Rounding of      *)
(* finite results is not modelled.                                         *)
(***************************************************************************)
EXTENDS Integers, Sequences, FiniteSets, TLC

VARIABLES pc, args, entry, ret

vars == <<pc, args, entry, ret>>

(***************************************************************************)
(* Outcomes of a call.                                                     *)
(***************************************************************************)
Pending == [raised |-> "pending", value |-> <<>>]

Return(v) == [raised |-> "None", value |-> v]

Raise(e) == [raised |-> e, value |-> <<>>]

Returned == pc = "done" /\ ret.raised = "None"

(***************************************************************************)
(* float64 arithmetic.                                                     *)
(***************************************************************************)
Abs(k) == IF k < 0 THEN -k ELSE k

Sgn(k) == IF k < 0 THEN -1 ELSE IF k > 0 THEN 1 ELSE 0

RECURSIVE GCD(_, _)
GCD(a, b) == IF b = 0 THEN a ELSE GCD(b, a % b)

\* The float with value n/d in lowest terms; n/0 is inf, -inf or nan.
F(n, d) ==
    IF d = 0 THEN [n |-> Sgn(n), d |-> 0]
    ELSE LET g == GCD(Abs(n), Abs(d))
         IN  [n |-> (Sgn(d) * n) \div g, d |-> Abs(d) \div g]

FloatOf(k) == [n |-> k, d |-> 1]

NaN == [n |-> 0, d |-> 0]

IsFinite(x) == x.d # 0

IsNaN(x) == x = NaN

\* The sign a zero or non-zero divisor gives an infinite quotient.
SgnPos(x) == IF x.n < 0 THEN -1 ELSE 1

FAdd(x, y) ==
    IF IsFinite(x) /\ IsFinite(y) THEN F(x.n * y.d + y.n * x.d, x.d * y.d)
    ELSE IF IsNaN(x) \/ IsNaN(y) THEN NaN
    ELSE IF IsFinite(x) THEN y
    ELSE IF IsFinite(y) THEN x
    ELSE IF x = y THEN x ELSE NaN

FSub(x, y) == FAdd(x, [n |-> -y.n, d |-> y.d])

FMul(x, y) ==
    IF IsFinite(x) /\ IsFinite(y) THEN F(x.n * y.n, x.d * y.d)
    ELSE IF IsNaN(x) \/ IsNaN(y) \/ x.n = 0 \/ y.n = 0 THEN NaN
    ELSE [n |-> Sgn(x.n) * Sgn(y.n), d |-> 0]

FDiv(x, y) ==
    IF IsFinite(x) /\ IsFinite(y) THEN F(x.n * y.d, x.d * y.n)
    ELSE IF IsNaN(x) \/ IsNaN(y) THEN NaN
    ELSE IF IsFinite(y) THEN [n |-> x.n * SgnPos(y), d |-> 0]
    ELSE IF IsFinite(x) THEN FloatOf(0)
    ELSE NaN

\* np.sum over the values of a dict of floats.
RECURSIVE FSum(_)
FSum(f) ==
    IF DOMAIN f = {} THEN FloatOf(0)
    ELSE LET k == CHOOSE x \in DOMAIN f : TRUE
         IN  FAdd(f[k], FSum([x \in DOMAIN f \ {k} |-> f[x]]))

\* The sum of the values of a dict of integers.
RECURSIVE Sum(_)
Sum(f) ==
    IF DOMAIN f = {} THEN 0
    ELSE LET k == CHOOSE x \in DOMAIN f : TRUE
         IN  f[k] + Sum([x \in DOMAIN f \ {k} |-> f[x]])

\* All dicts with keys among K and values in V.
Dicts(K, V) == UNION {[S -> V] : S \in SUBSET K}

(***************************************************************************)
(* normalize_dictionary(d)                                                 *)
(***************************************************************************)
MaxDictKeys == 3
MaxDictValue == 2

normalize_total(d) == FSum([i \in DOMAIN d |-> FloatOf(d[i])])

normalize_dictionary_halved(d) ==
    LET total == normalize_total(d)
    IN  IF total = FloatOf(0) THEN Return(d)
        ELSE Return([i \in DOMAIN d |-> FDiv(FloatOf(d[i]), FloatOf(Cardinality(DOMAIN d)))])

normalize_dictionary(d) ==
    LET total == normalize_total(d)
    IN  IF total = FloatOf(0) THEN Return(d)
        ELSE Return([i \in DOMAIN d |-> FDiv(FloatOf(d[i]), total)])

InitNormalize ==
    /\ pc = "call"
    /\ args \in [d : Dicts(0 .. MaxDictKeys - 1, 0 .. MaxDictValue)]
    /\ entry = args
    /\ ret = Pending

CallNormalize ==
    /\ pc = "call"
    /\ ret' = normalize_dictionary(args.d)
    /\ args' = args
    /\ pc' = "done"
    /\ UNCHANGED entry

SpecNormalize == InitNormalize /\ [][CallNormalize]_vars

\* C8: with a positive total the result has the keys of d, each value is
\* d[key]/total, the values sum to exactly 1, and d itself is unchanged.
C8_NormalizeSumsToOne ==
    (pc = "done" /\ Sum(entry.d) > 0) =>
        /\ ret.raised = "None"
        /\ DOMAIN ret.value = DOMAIN entry.d
        /\ \A k \in DOMAIN entry.d : ret.value[k] = F(entry.d[k], Sum(entry.d))
        /\ FSum(ret.value) = FloatOf(1)
        /\ args.d = entry.d

C8_Witness ==
    /\ Returned
    /\ Cardinality(DOMAIN entry.d) = 3
    /\ Sum(entry.d) = 5
    /\ \E k \in DOMAIN ret.value : ret.value[k] = F(2, 5)

(***************************************************************************)
(* Dict helpers.  A dict is iterated in ascending key order: the age and   *)
(* bracket dicts of the package are built that way.                        *)
(***************************************************************************)
Range(f) == {f[x] : x \in DOMAIN f}

RECURSIVE SortedSeq(_)
SortedSeq(S) ==
    IF S = {} THEN <<>>
    ELSE LET m == CHOOSE x \in S : \A y \in S : x <= y
         IN  <<m>> \o SortedSeq(S \ {m})

Keys(d) == SortedSeq(DOMAIN d)

\* dict.fromkeys(K, 0)
FromKeys(K) == [k \in K |-> 0]

(***************************************************************************)
(* get_age_by_brackets_dictionary(age_brackets)                            *)
(***************************************************************************)
RECURSIVE age_by_brackets_loop(_, _, _)
age_by_brackets_loop(todo, age_brackets, acc) ==
    IF todo = <<>> THEN acc
    ELSE LET b == Head(todo)
             members == Range(age_brackets[b])
         IN  age_by_brackets_loop(Tail(todo), age_brackets,
                 [a \in DOMAIN acc \cup members |->
                     IF a \in members THEN b ELSE acc[a]])

get_age_by_brackets_dictionary(age_brackets) ==
    age_by_brackets_loop(Keys(age_brackets), age_brackets, <<>>)

(***************************************************************************)
(* get_aggregate_ages(ages, age_by_brackets_dictionary)                    *)
(***************************************************************************)
AggMaxAge == 3
AggMaxCount == 1
AggMaxBracketId == 2

RECURSIVE aggregate_ages_loop_overwrite(_, _, _, _)
aggregate_ages_loop_overwrite(todo, ages, age_by_brackets_dictionary, aggregate_ages) ==
    IF todo = <<>> THEN Return(aggregate_ages)
    ELSE LET a == Head(todo)
         IN  IF a \notin DOMAIN age_by_brackets_dictionary THEN Raise("KeyError")
             ELSE LET b == age_by_brackets_dictionary[a]
                  IN  aggregate_ages_loop_overwrite(Tail(todo), ages,
                          age_by_brackets_dictionary,
                          [aggregate_ages EXCEPT ![b] = ages[a]])

RECURSIVE aggregate_ages_loop(_, _, _, _)
aggregate_ages_loop(todo, ages, age_by_brackets_dictionary, aggregate_ages) ==
    IF todo = <<>> THEN Return(aggregate_ages)
    ELSE LET a == Head(todo)
         IN  IF a \notin DOMAIN age_by_brackets_dictionary THEN Raise("KeyError")
             ELSE LET b == age_by_brackets_dictionary[a]
                  IN  aggregate_ages_loop(Tail(todo), ages,
                          age_by_brackets_dictionary,
                          [aggregate_ages EXCEPT ![b] = @ + ages[a]])

get_aggregate_ages(ages, age_by_brackets_dictionary) ==
    LET bracket_keys == Range(age_by_brackets_dictionary)
    IN  aggregate_ages_loop(Keys(ages), ages, age_by_brackets_dictionary,
                            FromKeys(bracket_keys))

\* Age-to-bracket maps on the ages 0 .. n-1, n <= maxAge, with ids 0 .. maxId.
AgeMaps(maxAge, maxId) == UNION {[0 .. n - 1 -> 0 .. maxId] : n \in 0 .. maxAge}

InitAggregateAges ==
    /\ pc = "call"
    /\ args \in [ages : Dicts(0 .. AggMaxAge - 1, 0 .. AggMaxCount),
                 age_by_brackets_dictionary : AgeMaps(AggMaxAge, AggMaxBracketId)]
    /\ entry = args
    /\ ret = Pending

CallAggregateAges ==
    /\ pc = "call"
    /\ ret' = get_aggregate_ages(args.ages, args.age_by_brackets_dictionary)
    /\ args' = args
    /\ pc' = "done"
    /\ UNCHANGED entry

SpecAggregateAges == InitAggregateAges /\ [][CallAggregateAges]_vars

\* C2: when every key of ages is a key of the age-to-bracket map, the result
\* is keyed by exactly the bracket ids that are values of the map, a bracket
\* no input age falls in holds 0, and the values sum to the sum of ages.
C2_AggregateAgesKeepsTotal ==
    (pc = "done" /\ DOMAIN entry.ages \subseteq DOMAIN entry.age_by_brackets_dictionary) =>
        /\ ret.raised = "None"
        /\ DOMAIN ret.value = Range(entry.age_by_brackets_dictionary)
        /\ \A b \in DOMAIN ret.value :
               (\A a \in DOMAIN entry.ages : entry.age_by_brackets_dictionary[a] # b)
                   => ret.value[b] = 0
        /\ Sum(ret.value) = Sum(entry.ages)

C2_Witness ==
    /\ Returned
    /\ DOMAIN entry.ages = {0, 1}
    /\ Sum(entry.ages) = 2
    /\ entry.age_by_brackets_dictionary = (0 :> 1) @@ (1 :> 1) @@ (2 :> 2)
    /\ ret.value = (1 :> 2) @@ (2 :> 0)

(***************************************************************************)
(* get_aggregate_age_dictionary_conversion(larger_aggregate_ages,          *)
(*     larger_age_brackets, smaller_age_brackets,                          *)
(*     age_by_brackets_dictionary_larger,                                  *)
(*     age_by_brackets_dictionary_smaller)                                 *)
(* A bracket scheme maps a bracket id to the list of its ages.             *)
(***************************************************************************)
ConvMaxAge == 3
ConvMaxCount == 1

RECURSIVE conversion_loop_overwrite(_, _, _, _, _)
conversion_loop_overwrite(todo, larger_aggregate_ages, larger_age_brackets, age_by_brackets_dictionary_smaller, smaller_aggregate_ages) ==
    IF todo = <<>> THEN Return(smaller_aggregate_ages)
    ELSE LET lb == Head(todo)
         IN  IF larger_age_brackets[lb] = <<>> THEN Raise("IndexError")
             ELSE LET a == larger_age_brackets[lb][1]
                  IN  IF a \notin DOMAIN age_by_brackets_dictionary_smaller
                      THEN Raise("KeyError")
                      ELSE LET sb == age_by_brackets_dictionary_smaller[a]
                           IN  IF \/ sb \notin DOMAIN smaller_aggregate_ages
                                  \/ lb \notin DOMAIN larger_aggregate_ages
                               THEN Raise("KeyError")
                               ELSE conversion_loop_overwrite(Tail(todo),
                                        larger_aggregate_ages, larger_age_brackets,
                                        age_by_brackets_dictionary_smaller,
                                        [smaller_aggregate_ages EXCEPT
                                            ![sb] = larger_aggregate_ages[lb]])

\* for lb in larger_age_brackets: ...
RECURSIVE conversion_loop(_, _, _, _, _)
conversion_loop(todo, larger_aggregate_ages, larger_age_brackets, age_by_brackets_dictionary_smaller, smaller_aggregate_ages) ==
    IF todo = <<>> THEN Return(smaller_aggregate_ages)
    ELSE LET lb == Head(todo)
         IN  IF larger_age_brackets[lb] = <<>> THEN Raise("IndexError")
             ELSE LET a == larger_age_brackets[lb][1]
                  IN  IF a \notin DOMAIN age_by_brackets_dictionary_smaller
                      THEN Raise("KeyError")
                      ELSE LET sb == age_by_brackets_dictionary_smaller[a]
                           IN  IF \/ sb \notin DOMAIN smaller_aggregate_ages
                                  \/ lb \notin DOMAIN larger_aggregate_ages
                               THEN Raise("KeyError")
                               ELSE conversion_loop(Tail(todo),
                                        larger_aggregate_ages, larger_age_brackets,
                                        age_by_brackets_dictionary_smaller,
                                        [smaller_aggregate_ages EXCEPT
                                            ![sb] = @ + larger_aggregate_ages[lb]])

conversion_rejecting_equal(larger_aggregate_ages, larger_age_brackets, smaller_age_brackets, age_by_brackets_dictionary_larger, age_by_brackets_dictionary_smaller) ==
    IF Cardinality(DOMAIN larger_age_brackets) <= Cardinality(DOMAIN smaller_age_brackets)
    THEN Raise("NotImplementedError")
    ELSE conversion_loop(Keys(larger_age_brackets), larger_aggregate_ages,
             larger_age_brackets, age_by_brackets_dictionary_smaller,
             FromKeys(DOMAIN smaller_age_brackets))

get_aggregate_age_dictionary_conversion(larger_aggregate_ages, larger_age_brackets, smaller_age_brackets, age_by_brackets_dictionary_larger, age_by_brackets_dictionary_smaller) ==
    IF Cardinality(DOMAIN larger_age_brackets) < Cardinality(DOMAIN smaller_age_brackets)
    THEN Raise("NotImplementedError")
    ELSE conversion_loop(Keys(larger_age_brackets), larger_aggregate_ages,
             larger_age_brackets, age_by_brackets_dictionary_smaller,
             FromKeys(DOMAIN smaller_age_brackets))

\* The bracket scheme of an age-to-bracket map: each bracket's ages, ascending.
SchemeOf(f) == [b \in Range(f) |-> SortedSeq({a \in DOMAIN f : f[a] = b})]

\* Brackets are numbered from 0 in the order of their first ages.
NumberedInOrder(f) ==
    \A a \in DOMAIN f :
        \/ \E x \in DOMAIN f : x < a /\ f[x] = f[a]
        \/ f[a] = Cardinality({f[x] : x \in {y \in DOMAIN f : y < a}})

\* Every scheme that partitions the ages 0 .. n-1 into brackets, n <= maxAge.
BracketSchemes(maxAge) ==
    {SchemeOf(f) : f \in {g \in AgeMaps(maxAge, maxAge - 1) : NumberedInOrder(g)}}

AgesOf(age_brackets) == UNION {Range(age_brackets[b]) : b \in DOMAIN age_brackets}

InitConversion ==
    /\ pc = "prepare"
    /\ args \in {[ages |-> ages, larger_age_brackets |-> larger,
                  smaller_age_brackets |-> smaller] :
                    <<ages, larger, smaller>> \in
                        {t \in Dicts(0 .. ConvMaxAge - 1, 0 .. ConvMaxCount)
                                \X BracketSchemes(ConvMaxAge)
                                \X BracketSchemes(ConvMaxAge) :
                            DOMAIN t[1] \subseteq AgesOf(t[2])}}
    /\ entry = args
    /\ ret = Pending

\* The caller derives the two age-to-bracket maps and the per-bracket counts
\* of the scheme with more brackets.
PrepareConversion ==
    /\ pc = "prepare"
    /\ LET by_larger == get_age_by_brackets_dictionary(args.larger_age_brackets)
           by_smaller == get_age_by_brackets_dictionary(args.smaller_age_brackets)
           call == [ages |-> args.ages,
                    larger_aggregate_ages |-> get_aggregate_ages(args.ages, by_larger).value,
                    larger_age_brackets |-> args.larger_age_brackets,
                    smaller_age_brackets |-> args.smaller_age_brackets,
                    age_by_brackets_dictionary_larger |-> by_larger,
                    age_by_brackets_dictionary_smaller |-> by_smaller]
       IN  args' = call /\ entry' = call
    /\ pc' = "call"
    /\ UNCHANGED ret

CallConversion ==
    /\ pc = "call"
    /\ ret' = get_aggregate_age_dictionary_conversion(args.larger_aggregate_ages,
                  args.larger_age_brackets, args.smaller_age_brackets,
                  args.age_by_brackets_dictionary_larger,
                  args.age_by_brackets_dictionary_smaller)
    /\ args' = args
    /\ pc' = "done"
    /\ UNCHANGED entry

NextConversion == PrepareConversion \/ CallConversion

SpecConversion == InitConversion /\ [][NextConversion]_vars

NumBrackets(age_brackets) == Cardinality(DOMAIN age_brackets)

\* C5: the call raises NotImplementedError, and returns nothing, exactly when
\* there are fewer larger brackets than smaller brackets.
C5_RejectsFineFromCoarse ==
    pc = "done" =>
        /\ NumBrackets(entry.larger_age_brackets) < NumBrackets(entry.smaller_age_brackets)
               => (ret.raised = "NotImplementedError" /\ ret.value = <<>>)
        /\ NumBrackets(entry.larger_age_brackets) >= NumBrackets(entry.smaller_age_brackets)
               => ret.raised # "NotImplementedError"

C5_Witness ==
    /\ pc = "done"
    /\ ret.raised = "NotImplementedError"
    /\ NumBrackets(entry.larger_age_brackets) = 2
    /\ NumBrackets(entry.smaller_age_brackets) = 3
    /\ Sum(entry.larger_aggregate_ages) = 2

C5_WitnessAccepted ==
    /\ Returned
    /\ NumBrackets(entry.larger_age_brackets) = 2
    /\ NumBrackets(entry.smaller_age_brackets) = 2

\* A scheme partitions its ages: no bracket is empty, no age is in two brackets
\* or twice in one.
IsPartition(age_brackets) ==
    /\ \A b \in DOMAIN age_brackets :
           /\ age_brackets[b] # <<>>
           /\ Cardinality(Range(age_brackets[b])) = Len(age_brackets[b])
    /\ \A b, c \in DOMAIN age_brackets :
           b # c => Range(age_brackets[b]) \cap Range(age_brackets[c]) = {}

\* Both schemes partition the same ages and no larger bracket is split.
Aligned(larger_age_brackets, smaller_age_brackets) ==
    /\ IsPartition(larger_age_brackets)
    /\ IsPartition(smaller_age_brackets)
    /\ AgesOf(larger_age_brackets) = AgesOf(smaller_age_brackets)
    /\ \A lb \in DOMAIN larger_age_brackets : \E sb \in DOMAIN smaller_age_brackets :
           Range(larger_age_brackets[lb]) \subseteq Range(smaller_age_brackets[sb])

\* The larger brackets whose first age lies in smaller bracket sb.
RepresentedIn(sb) ==
    {lb \in DOMAIN entry.larger_age_brackets :
        /\ entry.larger_age_brackets[lb][1] \in DOMAIN entry.age_by_brackets_dictionary_smaller
        /\ entry.age_by_brackets_dictionary_smaller[entry.larger_age_brackets[lb][1]] = sb}

\* C10: a returned conversion gives each smaller bracket the whole value of
\* every larger bracket whose first age it contains; when the schemes are
\* aligned it returns, and returns what get_aggregate_ages gives for the ages
\* under the smaller scheme's map.
C10_ConversionCommutes ==
    pc = "done" =>
        /\ Returned =>
               \A sb \in DOMAIN entry.smaller_age_brackets :
                   ret.value[sb] =
                       Sum([lb \in RepresentedIn(sb) |-> entry.larger_aggregate_ages[lb]])
        /\ Aligned(entry.larger_age_brackets, entry.smaller_age_brackets) =>
               /\ ret.raised = "None"
               /\ ret = get_aggregate_ages(entry.ages, entry.age_by_brackets_dictionary_smaller)

C10_Witness ==
    /\ Returned
    /\ Aligned(entry.larger_age_brackets, entry.smaller_age_brackets)
    /\ NumBrackets(entry.larger_age_brackets) = 3
    /\ NumBrackets(entry.smaller_age_brackets) = 2
    /\ Sum(entry.ages) = 3
    /\ \E sb \in DOMAIN ret.value : ret.value[sb] = 2

(***************************************************************************)
(* Matrices.  An n x n array is a function M with M[i][j], i, j in         *)
(* 0 .. n-1.                                                               *)
(***************************************************************************)
EntryValues == {0, 1}

Zeros(n) == [i \in 0 .. n - 1 |-> [j \in 0 .. n - 1 |-> FloatOf(0)]]

Ones(n) == [i \in 0 .. n - 1 |-> [j \in 0 .. n - 1 |-> FloatOf(1)]]

Cells(M) == (DOMAIN M) \X (DOMAIN M)

\* Every symmetric n x n matrix with entries in V.
SymmetricMatrices(n, V) ==
    {[i \in 0 .. n - 1 |-> [j \in 0 .. n - 1 |-> IF i <= j THEN u[<<i, j>>] ELSE u[<<j, i>>]]] :
        u \in [{c \in (0 .. n - 1) \X (0 .. n - 1) : c[1] <= c[2]} -> V]}

(***************************************************************************)
(* get_aggregate_matrix(M, age_by_brackets_dictionary)                     *)
(***************************************************************************)
MatMaxAge == 3
MatMaxBracketId == 2

\* The body of the two loops, for the k-th cell in row-major order.
RECURSIVE aggregate_matrix_loop_overwrite(_, _, _, _)
aggregate_matrix_loop_overwrite(k, M, age_by_brackets_dictionary, M_agg) ==
    LET N == Cardinality(DOMAIN M)
        num_agebrackets == Cardinality(DOMAIN M_agg)
    IN  IF k = N * N THEN Return(M_agg)
        ELSE LET i == k \div N
                 j == k % N
             IN  IF i \notin DOMAIN age_by_brackets_dictionary
                    \/ j \notin DOMAIN age_by_brackets_dictionary
                 THEN Raise("KeyError")
                 ELSE LET bi == age_by_brackets_dictionary[i]
                          bj == age_by_brackets_dictionary[j]
                      IN  IF bi >= num_agebrackets \/ bj >= num_agebrackets
                          THEN Raise("IndexError")
                          ELSE aggregate_matrix_loop_overwrite(k + 1, M,
                                   age_by_brackets_dictionary,
                                   [M_agg EXCEPT ![bi][bj] = FloatOf(M[i][j])])

RECURSIVE aggregate_matrix_loop(_, _, _, _)
aggregate_matrix_loop(k, M, age_by_brackets_dictionary, M_agg) ==
    LET N == Cardinality(DOMAIN M)
        num_agebrackets == Cardinality(DOMAIN M_agg)
    IN  IF k = N * N THEN Return(M_agg)
        ELSE LET i == k \div N
                 j == k % N
             IN  IF i \notin DOMAIN age_by_brackets_dictionary
                    \/ j \notin DOMAIN age_by_brackets_dictionary
                 THEN Raise("KeyError")
                 ELSE LET bi == age_by_brackets_dictionary[i]
                          bj == age_by_brackets_dictionary[j]
                      IN  IF bi >= num_agebrackets \/ bj >= num_agebrackets
                          THEN Raise("IndexError")
                          ELSE aggregate_matrix_loop(k + 1, M,
                                   age_by_brackets_dictionary,
                                   [M_agg EXCEPT ![bi][bj] = FAdd(@, FloatOf(M[i][j]))])

get_aggregate_matrix(M, age_by_brackets_dictionary) ==
    LET num_agebrackets == Cardinality(Range(age_by_brackets_dictionary))
    IN  aggregate_matrix_loop(0, M, age_by_brackets_dictionary, Zeros(num_agebrackets))

InitAggregateMatrix ==
    /\ pc = "call"
    /\ \E N \in 1 .. MatMaxAge :
           args \in [M : SymmetricMatrices(N, EntryValues),
                     age_by_brackets_dictionary : [0 .. N - 1 -> 0 .. MatMaxBracketId]]
    /\ entry = args
    /\ ret = Pending

CallAggregateMatrix ==
    /\ pc = "call"
    /\ ret' = get_aggregate_matrix(args.M, args.age_by_brackets_dictionary)
    /\ args' = args
    /\ pc' = "done"
    /\ UNCHANGED entry

SpecAggregateMatrix == InitAggregateMatrix /\ [][CallAggregateMatrix]_vars

\* The sum of all cells of a matrix of floats / of integers.
MatrixFSum(M) == FSum([c \in Cells(M) |-> M[c[1]][c[2]]])

MatrixSum(M) == Sum([c \in Cells(M) |-> M[c[1]][c[2]]])

\* The ages a map sends to bracket b.
AgesIn(age_by_brackets_dictionary, b) ==
    {a \in DOMAIN age_by_brackets_dictionary : age_by_brackets_dictionary[a] = b}

\* The result is the per-bracket matrix of block sums, with the mass of M.
IsBlockSum(M_agg, M, age_by_brackets_dictionary) ==
    /\ DOMAIN M_agg = 0 .. Cardinality(Range(age_by_brackets_dictionary)) - 1
    /\ \A bi, bj \in DOMAIN M_agg :
           M_agg[bi][bj] =
               FloatOf(Sum([c \in AgesIn(age_by_brackets_dictionary, bi)
                                    \X AgesIn(age_by_brackets_dictionary, bj)
                               |-> M[c[1]][c[2]]]))
    /\ MatrixFSum(M_agg) = FloatOf(MatrixSum(M))

\* C1 as stated: for any map on the ages 0 .. N-1 a per-bracket matrix of
\* block sums is returned, whose cells sum to the sum of the cells of M.
C1_AnyMapPreservesMass ==
    pc = "done" =>
        /\ ret.raised = "None"
        /\ IsBlockSum(ret.value, entry.M, entry.age_by_brackets_dictionary)

\* C1 amended: the same, for maps whose bracket ids are exactly
\* 0 .. B-1, B the number of brackets.
C1_DenseIdsPreserveMass ==
    (pc = "done" /\ Range(entry.age_by_brackets_dictionary)
                        = 0 .. Cardinality(Range(entry.age_by_brackets_dictionary)) - 1) =>
        /\ ret.raised = "None"
        /\ IsBlockSum(ret.value, entry.M, entry.age_by_brackets_dictionary)

C1_Witness ==
    /\ Returned
    /\ entry.age_by_brackets_dictionary = (0 :> 1) @@ (1 :> 0) @@ (2 :> 0)
    /\ MatrixSum(entry.M) = 7
    /\ ret.value[0][0] = FloatOf(3)
    /\ ret.value[0][1] = FloatOf(2)

(***************************************************************************)
(* get_symmetric_community_matrix(ages)                                    *)
(***************************************************************************)
CommMaxN == 3
CommMaxSize == 3

\* for a in range(N): M[a, :] = M[a, :] * ages[a]; M[:, a] = M[:, a] * ages[a]
RECURSIVE community_scale_loop(_, _, _)
community_scale_loop(a, ages, M) ==
    IF a = Cardinality(DOMAIN M) THEN Return(M)
    ELSE IF a \notin DOMAIN ages THEN Raise("KeyError")
    ELSE LET rowScaled == [M EXCEPT ![a] = [j \in DOMAIN M |-> FMul(M[a][j], FloatOf(ages[a]))]]
             colScaled == [i \in DOMAIN M |->
                              [rowScaled[i] EXCEPT ![a] = FMul(@, FloatOf(ages[a]))]]
         IN  community_scale_loop(a + 1, ages, colScaled)

\* The second loop left out: the diagonal keeps size(a) * size(a).
community_diagonal_loop_skipped(a, ages, M) == M

\* for a in range(N): M[a, a] -= ages[a]
RECURSIVE community_diagonal_loop(_, _, _)
community_diagonal_loop(a, ages, M) ==
    IF a = Cardinality(DOMAIN M) THEN M
    ELSE community_diagonal_loop(a + 1, ages,
             [M EXCEPT ![a][a] = FSub(@, FloatOf(ages[a]))])

\* The divisor taken as the total itself.
community_divisor_total(ages) == FSum([a \in DOMAIN ages |-> FloatOf(ages[a])])

\* np.sum([ages[a] for a in ages], dtype=float) - 1
community_divisor(ages) ==
    FSub(FSum([a \in DOMAIN ages |-> FloatOf(ages[a])]), FloatOf(1))

get_symmetric_community_matrix(ages) ==
    LET N == Cardinality(DOMAIN ages)
        scaled == community_scale_loop(0, ages, Ones(N))
    IN  IF scaled.raised # "None" THEN scaled
        ELSE LET M == community_diagonal_loop(0, ages, scaled.value)
             IN  Return([i \in DOMAIN M |->
                            [j \in DOMAIN M |-> FDiv(M[i][j], community_divisor(ages))]])

InitCommunity ==
    /\ pc = "call"
    /\ \E N \in 1 .. CommMaxN : args \in [ages : [0 .. N - 1 -> 0 .. CommMaxSize]]
    /\ entry = args
    /\ ret = Pending

CallCommunity ==
    /\ pc = "call"
    /\ ret' = get_symmetric_community_matrix(args.ages)
    /\ args' = args
    /\ pc' = "done"
    /\ UNCHANGED entry

SpecCommunity == InitCommunity /\ [][CallCommunity]_vars

\* The float comparison ==: nan equals nothing, itself included.
FEq(x, y) == ~IsNaN(x) /\ ~IsNaN(y) /\ x = y

\* The quotient n/d as Python computes it for the right-hand sides of a
\* comparison; with d = 0 there is no value to compare with.
Quotient(n, d) == IF d = 0 THEN NaN ELSE F(n, d)

\* M is symmetric, with size(i)*size(j)/(total-1) off the diagonal and
\* (size(i)*size(i) - size(i))/(total-1) on it.
IsCommunityMatrix(M, ages) ==
    LET total == Sum(ages)
    IN  /\ DOMAIN M = DOMAIN ages
        /\ \A i, j \in DOMAIN ages :
               /\ DOMAIN M[i] = DOMAIN ages
               /\ i # j => /\ FEq(M[i][j], M[j][i])
                           /\ FEq(M[i][j], Quotient(ages[i] * ages[j], total - 1))
               /\ FEq(M[i][i], Quotient(ages[i] * ages[i] - ages[i], total - 1))

\* C3 as stated: for any population vector the result is symmetric with the
\* entries above.
C3_AnyVectorSymmetric ==
    pc = "done" => (ret.raised = "None" /\ IsCommunityMatrix(ret.value, entry.ages))

\* C3 amended: the same, for any population vector whose total is not 1.
C3_SymmetricUnlessTotalOne ==
    (pc = "done" /\ Sum(entry.ages) # 1) =>
        (ret.raised = "None" /\ IsCommunityMatrix(ret.value, entry.ages))

C3_Witness ==
    /\ Returned
    /\ entry.ages = (0 :> 1) @@ (1 :> 2) @@ (2 :> 3)
    /\ ret.value[0][1] = F(2, 5)
    /\ ret.value[1][0] = F(2, 5)
    /\ ret.value[2][2] = F(6, 5)
    /\ ret.value[0][0] = FloatOf(0)

AllFinite(M) == \A c \in Cells(M) : IsFinite(M[c[1]][c[2]])

AllNaN(M) == \A c \in Cells(M) : IsNaN(M[c[1]][c[2]])

\* C4 as stated: with a total of at most 1 the call fails on the division by
\* zero and returns no finite matrix.
C4_FaultsUpToTotalOne ==
    (pc = "done" /\ Sum(entry.ages) <= 1) =>
        (ret.raised # "None" \/ ~AllFinite(ret.value))

\* C4 amended: no exception is raised; the divisor total - 1 is zero exactly
\* when the total is 1, and then every entry of the returned matrix is nan;
\* with any other total, 0 included, every entry is finite.
C4_NanExactlyAtTotalOne ==
    pc = "done" =>
        /\ ret.raised = "None"
        /\ Sum(entry.ages) = 1 => AllNaN(ret.value)
        /\ Sum(entry.ages) # 1 => AllFinite(ret.value)

C4_Witness ==
    /\ Returned
    /\ entry.ages = (0 :> 0) @@ (1 :> 1)
    /\ ret.value[1][1] = NaN
    /\ ret.value[0][1] = NaN

C4_WitnessTotalZero ==
    /\ Returned
    /\ entry.ages = (0 :> 0) @@ (1 :> 0)
    /\ ret.value[1][1] = FloatOf(0)

(***************************************************************************)
(* combine_matrices(matrix_dictionary, weights_dictionary, num_agebrackets)*)
(* Every matrix of matrix_dictionary has num_agebrackets rows and columns. *)
(***************************************************************************)
CombMaxN == 2
CombMaxWeightHalves == 2

Settings == {"H", "S"}

\* The keys of a dict whose keys have no order of their own, one after another.
RECURSIVE InSomeOrder(_)
InSomeOrder(S) ==
    IF S = {} THEN <<>>
    ELSE LET k == CHOOSE x \in S : TRUE IN <<k>> \o InSomeOrder(S \ {k})

\* M + matrix * weight
AddScaled(M, matrix, weight) ==
    [i \in DOMAIN M |-> [j \in DOMAIN M |-> FAdd(M[i][j], FMul(FloatOf(matrix[i][j]), weight))]]

RECURSIVE combine_loop_unweighted(_, _, _, _)
combine_loop_unweighted(todo, matrix_dictionary, weights_dictionary, M) ==
    IF todo = <<>> THEN Return(M)
    ELSE LET setting_code == Head(todo)
         IN  IF setting_code \notin DOMAIN matrix_dictionary THEN Raise("KeyError")
             ELSE combine_loop_unweighted(Tail(todo), matrix_dictionary, weights_dictionary,
                      AddScaled(M, matrix_dictionary[setting_code], FloatOf(1)))

\* for setting_code in weights_dictionary: M += ...
RECURSIVE combine_loop(_, _, _, _)
combine_loop(todo, matrix_dictionary, weights_dictionary, M) ==
    IF todo = <<>> THEN Return(M)
    ELSE LET setting_code == Head(todo)
         IN  IF setting_code \notin DOMAIN matrix_dictionary THEN Raise("KeyError")
             ELSE combine_loop(Tail(todo), matrix_dictionary, weights_dictionary,
                      AddScaled(M, matrix_dictionary[setting_code],
                                weights_dictionary[setting_code]))

combine_matrices(matrix_dictionary, weights_dictionary, num_agebrackets) ==
    combine_loop(InSomeOrder(DOMAIN weights_dictionary), matrix_dictionary,
                 weights_dictionary, Zeros(num_agebrackets))

Weights == {F(k, 2) : k \in 0 .. CombMaxWeightHalves}

InitCombine ==
    /\ pc = "call"
    /\ \E n \in 1 .. CombMaxN :
           args \in [matrix_dictionary : Dicts(Settings, SymmetricMatrices(n, EntryValues)),
                     weights_dictionary : Dicts(Settings, Weights),
                     num_agebrackets : {n}]
    /\ entry = args
    /\ ret = Pending

CallCombine ==
    /\ pc = "call"
    /\ ret' = combine_matrices(args.matrix_dictionary, args.weights_dictionary,
                               args.num_agebrackets)
    /\ args' = args
    /\ pc' = "done"
    /\ UNCHANGED entry

SpecCombine == InitCombine /\ [][CallCombine]_vars

\* C6: when every weighted setting has a matrix, each cell of the
\* num_agebrackets x num_agebrackets result is the sum over the keys of
\* weights_dictionary of weight * matrix cell (a matrix without a weight adds
\* nothing), and the arguments are unchanged.
C6_CombineIsWeightedSum ==
    (pc = "done" /\ DOMAIN entry.weights_dictionary \subseteq DOMAIN entry.matrix_dictionary) =>
        /\ ret.raised = "None"
        /\ DOMAIN ret.value = 0 .. entry.num_agebrackets - 1
        /\ \A i, j \in 0 .. entry.num_agebrackets - 1 :
               /\ DOMAIN ret.value[i] = 0 .. entry.num_agebrackets - 1
               /\ ret.value[i][j] =
                      FSum([s \in DOMAIN entry.weights_dictionary |->
                               FMul(entry.weights_dictionary[s],
                                    FloatOf(entry.matrix_dictionary[s][i][j]))])
        /\ args = entry

C6_Witness ==
    /\ Returned
    /\ entry.num_agebrackets = 2
    /\ DOMAIN entry.matrix_dictionary = {"H", "S"}
    /\ DOMAIN entry.weights_dictionary = {"H"}
    /\ entry.weights_dictionary["H"] = F(1, 2)
    /\ entry.matrix_dictionary["H"][0][1] = 1
    /\ entry.matrix_dictionary["S"][0][1] = 1
    /\ ret.value[0][1] = F(1, 2)

C6_WitnessBoth ==
    /\ Returned
    /\ DOMAIN entry.weights_dictionary = {"H", "S"}
    /\ \E c \in Cells(ret.value) : ret.value[c[1]][c[2]] = F(3, 2)

(***************************************************************************)
(* get_asymmetric_matrix(symmetric_matrix, aggregate_ages)                 *)
(* An array is [dtype, data]; the elements of an int64 array are integers. *)
(* Cohort sizes are at least 1.                                            *)
(***************************************************************************)
AsymMaxN == 2
AsymMaxSize == 2

\* The integer part of a finite float, towards zero.
Trunc(x) == IF x.n >= 0 THEN x.n \div x.d ELSE -((-x.n) \div x.d)

\* What an array of the given dtype holds after x is assigned to an element.
Stored(dtype, x) == IF dtype = "int64" THEN FloatOf(Trunc(x)) ELSE x

\* M[a, :] = M[a, :]/float(aggregate_ages[a]), for each a in aggregate_ages
RECURSIVE asymmetric_loop(_, _, _)
asymmetric_loop(todo, aggregate_ages, M) ==
    IF todo = <<>> THEN Return(M)
    ELSE LET a == Head(todo)
         IN  IF a \notin DOMAIN M.data THEN Raise("IndexError")
             ELSE asymmetric_loop(Tail(todo), aggregate_ages,
                      [M EXCEPT !.data[a] =
                          [j \in DOMAIN M.data |->
                              Stored(M.dtype, FDiv(M.data[a][j], FloatOf(aggregate_ages[a])))]])

\* deepcopy keeps the dtype of the array it copies.
get_asymmetric_matrix(symmetric_matrix, aggregate_ages) ==
    LET M == symmetric_matrix
    IN  asymmetric_loop(Keys(aggregate_ages), aggregate_ages, M)

\* The array of the given dtype with the integer entries of M.
ArrayOf(dtype, M) ==
    [dtype |-> dtype, data |-> [i \in DOMAIN M |-> [j \in DOMAIN M |-> FloatOf(M[i][j])]]]

InitAsymmetric ==
    /\ pc = "call"
    /\ \E n \in 1 .. AsymMaxN :
           args \in [symmetric_matrix :
                         {ArrayOf(t, M) : t \in {"float64", "int64"},
                                          M \in SymmetricMatrices(n, EntryValues)},
                     aggregate_ages : Dicts(0 .. n - 1, 1 .. AsymMaxSize)]
    /\ entry = args
    /\ ret = Pending

CallAsymmetric ==
    /\ pc = "call"
    /\ ret' = get_asymmetric_matrix(args.symmetric_matrix, args.aggregate_ages)
    /\ args' = args
    /\ pc' = "done"
    /\ UNCHANGED entry

SpecAsymmetric == InitAsymmetric /\ [][CallAsymmetric]_vars

\* Row a of the result is row a of the input divided by aggregate_ages[a].
RowsDivided(M, symmetric_matrix, aggregate_ages) ==
    \A a \in DOMAIN aggregate_ages : \A j \in DOMAIN symmetric_matrix.data :
        FEq(M.data[a][j], FDiv(symmetric_matrix.data[a][j], FloatOf(aggregate_ages[a])))

\* C7: every row a in aggregate_ages of the result is the input row divided
\* by aggregate_ages[a], and the input matrix is unchanged.
C7_RowsDividedByCohortSize ==
    pc = "done" =>
        /\ ret.raised = "None"
        /\ RowsDivided(ret.value, entry.symmetric_matrix, entry.aggregate_ages)
        /\ args.symmetric_matrix = entry.symmetric_matrix

\* What does hold: the claim for float64 arrays, and for int64 arrays the
\* quotient cut to its integer part.
C7_RowsDividedInFloatArrays ==
    pc = "done" =>
        /\ ret.raised = "None"
        /\ args.symmetric_matrix = entry.symmetric_matrix
        /\ ret.value.dtype = entry.symmetric_matrix.dtype
        /\ entry.symmetric_matrix.dtype = "float64" =>
               RowsDivided(ret.value, entry.symmetric_matrix, entry.aggregate_ages)
        /\ entry.symmetric_matrix.dtype = "int64" =>
               \A a \in DOMAIN entry.aggregate_ages : \A j \in DOMAIN ret.value.data :
                   ret.value.data[a][j] =
                       FloatOf(entry.symmetric_matrix.data[a][j].n \div entry.aggregate_ages[a])

(***************************************************************************)
(* get_ids_by_age_dictionary(age_by_id_dictionary)                         *)
(* The dict is the sequence of its <<id, age>> items in insertion order,   *)
(* the order Python iterates it in.                                        *)
(***************************************************************************)
IdsMaxPeople == 3
IdsMaxAge == 2

MaxOf(S) == CHOOSE x \in S : \A y \in S : y <= x

RECURSIVE ids_by_age_loop_prepend(_, _)
ids_by_age_loop_prepend(todo, ids_by_age_dictionary) ==
    IF todo = <<>> THEN Return(ids_by_age_dictionary)
    ELSE LET i == Head(todo)[1]
             age == Head(todo)[2]
         IN  ids_by_age_loop_prepend(Tail(todo),
                 [ids_by_age_dictionary EXCEPT ![age] = <<i>> \o @])

\* for i in age_by_id_dictionary: ids_by_age_dictionary[age].append(i)
RECURSIVE ids_by_age_loop(_, _)
ids_by_age_loop(todo, ids_by_age_dictionary) ==
    IF todo = <<>> THEN Return(ids_by_age_dictionary)
    ELSE LET i == Head(todo)[1]
             age == Head(todo)[2]
         IN  ids_by_age_loop(Tail(todo),
                 [ids_by_age_dictionary EXCEPT ![age] = Append(@, i)])

get_ids_by_age_dictionary(age_by_id_dictionary) ==
    IF age_by_id_dictionary = <<>> THEN Raise("ValueError")
    ELSE LET max_val == MaxOf({age_by_id_dictionary[k][2] : k \in DOMAIN age_by_id_dictionary})
         IN  ids_by_age_loop(age_by_id_dictionary, [a \in 0 .. max_val |-> <<>>])

\* Every id-to-age dict of at most maxPeople people: no id is a key twice.
AgeByIdDicts(maxPeople, maxAge) ==
    {s \in UNION {[1 .. k -> (0 .. maxPeople - 1) \X (0 .. maxAge)] : k \in 0 .. maxPeople} :
        \A p, q \in DOMAIN s : p # q => s[p][1] # s[q][1]}

InitIds ==
    /\ pc = "call"
    /\ args \in [age_by_id_dictionary : AgeByIdDicts(IdsMaxPeople, IdsMaxAge)]
    /\ entry = args
    /\ ret = Pending

CallIds ==
    /\ pc = "call"
    /\ ret' = get_ids_by_age_dictionary(args.age_by_id_dictionary)
    /\ args' = args
    /\ pc' = "done"
    /\ UNCHANGED entry

SpecIds == InitIds /\ [][CallIds]_vars

\* The position of id i among the items of the input dict.
PositionOf(items, i) == CHOOSE k \in DOMAIN items : items[k][1] = i

\* C9: for a non-empty dict the result has one key per age in 0 .. max_age,
\* every id is once in the list of its own age and in no other list, the
\* lists hold nothing else, and each list is in the input's iteration order.
C9_IdsPartitionedByAge ==
    (pc = "done" /\ entry.age_by_id_dictionary # <<>>) =>
        LET items == entry.age_by_id_dictionary
            max_age == MaxOf({items[k][2] : k \in DOMAIN items})
        IN  /\ ret.raised = "None"
            /\ DOMAIN ret.value = 0 .. max_age
            /\ \A k \in DOMAIN items : \A a \in 0 .. max_age :
                   Cardinality({p \in DOMAIN ret.value[a] : ret.value[a][p] = items[k][1]})
                       = IF a = items[k][2] THEN 1 ELSE 0
            /\ Sum([a \in 0 .. max_age |-> Len(ret.value[a])]) = Len(items)
            /\ \A a \in 0 .. max_age : \A p, q \in DOMAIN ret.value[a] :
                   p < q => PositionOf(items, ret.value[a][p]) < PositionOf(items, ret.value[a][q])

C9_Witness ==
    /\ Returned
    /\ entry.age_by_id_dictionary = << <<2, 0>>, <<0, 2>>, <<1, 0>> >>
    /\ ret.value = (0 :> <<2, 1>>) @@ (1 :> <<>>) @@ (2 :> <<0>>)

=============================================================================
